---- MODULE Spec2Model ----
(***************************************************************************)
(* A model of the PDF question-answering program: core/rag_pipeline.py     *)
(* (RAGPipeline), core/llm_handler.py, core/vector_store.py,               *)
(* core/pdf_processor.py and the Streamlit script app.py.                  *)
(*                                                                         *)
(* Python values: None is the record None; an Optional[str] is None or     *)
(* Str(s); a dict is a function whose DOMAIN is its set of keys; every     *)
(* provider object (embedding model, Chroma store, retriever, LLM, chain)  *)
(* is a record of what it was constructed from.                            *)
(***************************************************************************)
EXTENDS Integers, Sequences, FiniteSets, TLC

VARIABLES
  caller,     \* who drives the process: "api" (a script calling RAGPipeline), "app"
              \* (app.py) or "threads" (two threads sharing one RAGPipeline)
  pipe,       \* the RAGPipeline object most recently constructed in the process
  everReady,  \* history: some setup_for_pdf call on `pipe` has returned True
  chroma,     \* the process-wide in-memory Chroma system: collection name -> entries
  ss,         \* st.session_state of app.py
  uploader,   \* the file currently held by st.file_uploader (None or a document)
  passes,     \* history: per document, the setup_for_pdf calls that returned True
  threads,    \* the two threads: where each is in its call, and the call's locals
  last        \* what the last operation did and returned

vars == <<caller, pipe, everReady, chroma, ss, uploader, passes, threads, last>>

-----------------------------------------------------------------------------
(* Bounds of the model *)

\* chunks the splitter produces for the longest document of the model
MaxChunks == 2
\* cap on the entries of one Chroma collection (indexing is not attempted beyond it)
MaxEntries == 3
\* cap on the length of st.session_state.messages
MaxTurns == 5

-----------------------------------------------------------------------------
(* Python values *)

None == [kind |-> "None"]
Str(s) == [kind |-> "str", text |-> s]

\* truthiness of an Optional[str]
Truthy(v) == v # None /\ v.text # ""

\* d.get(k, default)
Get(d, k, default) == IF k \in DOMAIN d THEN d[k] ELSE default

\* Op applied to the value of v (v is evaluated once, before Op)
Let(v, Op(_)) == CHOOSE r \in {Op(x) : x \in {v}} : TRUE

\* the result of a call that may raise
Ok(v) == [ok |-> TRUE, value |-> v, exc |-> "none"]
Raise(e) == [ok |-> FALSE, value |-> None, exc |-> e]

\* how a call of a public method ended
Returned(v) == [kind |-> "return", value |-> v]
Raised(e) == [kind |-> "raise", exc |-> e]

-----------------------------------------------------------------------------
(* Configuration *)

DEFAULT_RAG_CONFIG ==
  [ pdf_processor_config |-> [chunk_size |-> 1000, chunk_overlap |-> 150],
    embedding_config     |-> [provider |-> "huggingface", model_name |-> None],
    vector_store_config  |-> [mode |-> "in_memory",
                              collection_name_prefix |-> "rag_collection_"],
    llm_config           |-> [provider |-> "google",
                              model_name |-> Str("gemini-1.5-flash-latest"),
                              temperature |-> "0.3"],
    retriever_config     |-> [search_type |-> "similarity",
                              search_kwargs |-> [k |-> 10]] ]

\* {**d, **c}: a shallow merge, a section of c replaces the whole section of d
MergeDicts(d, c) ==
  [k \in (DOMAIN d) \cup (DOMAIN c) |-> IF k \in DOMAIN c THEN c[k] ELSE d[k]]

EmptyDict == [k \in {} |-> None]

\* the custom_config app.py passes to RAGPipeline
AppCustomConfig ==
  [ embedding_config |-> [provider |-> "huggingface"],
    llm_config       |-> [provider |-> "ollama",
                          model_name |-> Str("gemma3:1b"),
                          temperature |-> "0.3"] ]

\* the configurations a caller of the API constructs a RAGPipeline with
ConfigNames ==
  {"none", "app", "llm_provider_only", "embedding_openai", "llm_openai", "persistent"}

UserConfig(name) ==
  CASE name = "none" -> None
    [] name = "app" -> AppCustomConfig
    [] name = "llm_provider_only" ->
         [llm_config |-> [provider |-> "ollama"]]
    [] name = "embedding_openai" ->
         [embedding_config |-> [provider |-> "openai"],
          llm_config |-> AppCustomConfig.llm_config]
    [] name = "llm_openai" ->
         [llm_config |-> [provider |-> "openai", model_name |-> Str("gpt-4o"),
                          temperature |-> "0.3"]]
    [] name = "persistent" ->
         [vector_store_config |-> [mode |-> "persistent",
                                   collection_name_prefix |-> "rag_collection_"],
          llm_config |-> AppCustomConfig.llm_config]

-----------------------------------------------------------------------------
(* Documents *)

\* what a PDF file holds: "A" and "B" have text, "E" has no extractable text
Contents == {"A", "B", "E"}

NumChunks(content) ==
  CASE content = "A" -> MaxChunks
    [] content = "B" -> 1
    [] content = "E" -> 0

\* the chunks the splitter yields for a file, in document order
ChunksOf(content) ==
  [i \in 1..NumChunks(content) |-> [doc |-> content, idx |-> i]]

\* File names without the ".pdf" extension, as sequences of characters.
NameAB == <<"a", "-", "b">>
NameA_B == <<"a", "_", "b">>
NameC == <<"c">>

\* the uploads of the model: two files named a-b.pdf with different content,
\* a_b.pdf (which sanitizes to the same name as a-b.pdf), and c.pdf with no text
Docs ==
  { [name |-> NameAB, content |-> "A"],
    [name |-> NameAB, content |-> "B"],
    [name |-> NameA_B, content |-> "B"],
    [name |-> NameC, content |-> "E"] }

Alnum == {"a", "b", "c"}

\* "".join(c if c.isalnum() else "_" for c in pdf_filename)
SafeFilename(name) ==
  [i \in 1..Len(name) |-> IF name[i] \in Alnum THEN name[i] ELSE "_"]

-----------------------------------------------------------------------------
(* The environment of one call: which external step fails, if any.  The    *)
(* first failing step aborts the call, so one fault per call is general.   *)

SetupFaults == {"none", "loader", "embed", "store", "insert", "llm"}

\* env.fault: the external failure met by this call; env.api_key: GOOGLE_API_KEY
\* is set.  A missing key is looked at only by a call that no fault aborts first.
SetupEnvs ==
  {[fault |-> x, api_key |-> TRUE] : x \in SetupFaults}
    \cup {[fault |-> "none", api_key |-> FALSE]}

NoFault == [fault |-> "none", api_key |-> TRUE]

-----------------------------------------------------------------------------
(* core/pdf_processor.py *)

\* Returns the chunks of the file, or [] when nothing was loaded or the loader
\* or splitter raised.
load_and_chunk_pdf(content, env) ==
  IF env.fault = "loader" THEN <<>> ELSE ChunksOf(content)

-----------------------------------------------------------------------------
(* core/llm_handler.py *)

get_embeddings_model(provider, model_name, env) ==
  IF provider = "huggingface"
  THEN IF env.fault = "embed"
       THEN Raise("RuntimeError")   \* HuggingFaceEmbeddings(...) failed to load
       ELSE Ok([kind |-> "HuggingFaceEmbeddings",
                model_name |-> IF Truthy(model_name) THEN model_name.text
                               ELSE "all-MiniLM-L6-v2",
                device |-> "cuda"])
  ELSE Raise("ValueError")

get_llm(provider, model_name, temperature, env) ==
  IF provider = "google"
  THEN IF ~env.api_key THEN Raise("ValueError")
       ELSE IF env.fault = "llm" THEN Raise("RuntimeError")
       ELSE Ok([kind |-> "ChatGoogleGenerativeAI",
                model |-> IF Truthy(model_name) THEN model_name.text
                          ELSE "gemini-1.5-flash-latest",
                temperature |-> temperature])
  ELSE IF provider = "ollama"
  THEN IF env.fault = "llm" THEN Raise("RuntimeError")
       ELSE Ok([kind |-> "ChatOllama",
                model |-> IF Truthy(model_name) THEN model_name.text ELSE "llama3.2",
                temperature |-> temperature])
  ELSE Raise("ValueError")

-----------------------------------------------------------------------------
(* core/vector_store.py.  A call returns [res, chroma]: its result and the *)
(* Chroma system afterwards.  Chroma(collection_name=...) without a        *)
(* directory opens the collection of that name in the in-memory system of  *)
(* the process, creating it when it does not exist yet.                    *)

GetOrCreateCollection(ch, collection_name) ==
  IF collection_name \in DOMAIN ch THEN ch ELSE ch @@ (collection_name :> <<>>)

get_vector_store(embeddings_model, collection_name, persist_directory, ch, env) ==
  IF persist_directory # None
  THEN \* os.path.exists: the module never imports os
       [res |-> Raise("NameError"), chroma |-> ch]
  ELSE IF env.fault = "store"
  THEN [res |-> Raise("RuntimeError"), chroma |-> ch]
  ELSE [res |-> Ok([kind |-> "Chroma",
                    collection_name |-> collection_name,
                    embedding_function |-> embeddings_model]),
        chroma |-> GetOrCreateCollection(ch, collection_name)]

add_documents_to_store(vector_store, documents, is_persistent, ch, env) ==
  IF Len(documents) = 0
  THEN [res |-> Ok(None), chroma |-> ch]
  ELSE IF env.fault = "insert"
  THEN [res |-> Raise("RuntimeError"), chroma |-> ch]
  ELSE [res |-> Ok(None),
        chroma |-> [ch EXCEPT ![vector_store.collection_name] = @ \o documents]]

-----------------------------------------------------------------------------
(* core/rag_pipeline.py: RAGPipeline *)

\* RAGPipeline.__init__
RAGPipeline(config) ==
  [ config |-> MergeDicts(DEFAULT_RAG_CONFIG, IF config # None THEN config ELSE EmptyDict),
    embeddings_model |-> None,
    vector_db |-> None,
    llm |-> None,
    rag_chain |-> None,
    retriever |-> None ]

(* setup_for_pdf, one operator per stage ("Etapa") of the method.  A frame *)
(* holds the object, the Chroma system, the local `chunks`, and `ret`: how *)
(* the call has ended, or None while it is still running.                  *)

Frame(self, ch) == [self |-> self, chroma |-> ch, chunks |-> <<>>, ret |-> None]

Running(f) == f.ret = None

\* the next stage of a call: Etapa runs on the frame unless the call has ended
Then(f, Etapa(_)) == Let(f, LAMBDA x : IF Running(x) THEN Etapa(x) ELSE x)

\* Etapa 1 that returns False without clearing the chain of an earlier call
Etapa1_KeepsChain(f, content, env) ==
  LET chunks == load_and_chunk_pdf(content, env) IN
  IF Len(chunks) = 0
  THEN [f EXCEPT !.ret = Returned(FALSE)]
  ELSE [f EXCEPT !.chunks = chunks]

\* Etapa 1: load and chunk; no chunks clears rag_chain and returns False
Etapa1(f, content, env) ==
  LET chunks == load_and_chunk_pdf(content, env) IN
  IF Len(chunks) = 0
  THEN [f EXCEPT !.self.rag_chain = None, !.ret = Returned(FALSE)]
  ELSE [f EXCEPT !.chunks = chunks]

\* Etapa 2: the embedding model
Etapa2(f, env) ==
  LET emb_conf == f.self.config["embedding_config"]
      r == get_embeddings_model(Get(emb_conf, "provider", "huggingface"),
                                Get(emb_conf, "model_name", None), env)
  IN IF r.ok THEN [f EXCEPT !.self.embeddings_model = r.value]
     ELSE [f EXCEPT !.ret = Raised(r.exc)]

\* the collection name: prefix followed by the sanitized file name
CollectionName(prefix, pdf_file_path) == <<prefix>> \o SafeFilename(pdf_file_path)

\* Etapa 3, first half: the vector store
Etapa3(f, pdf_file_path, env) ==
  LET vs_conf == f.self.config["vector_store_config"]
      vs_mode == Get(vs_conf, "mode", "in_memory")
  IN IF vs_mode = "persistent"
     THEN \* self._get_pdf_specific_persist_directory_path is not a method of the class
          [f EXCEPT !.ret = Raised("AttributeError")]
     ELSE IF "collection_name_prefix" \notin DOMAIN vs_conf
     THEN [f EXCEPT !.ret = Raised("KeyError")]
     ELSE LET g == get_vector_store(f.self.embeddings_model,
                     CollectionName(vs_conf["collection_name_prefix"], pdf_file_path),
                     None, f.chroma, env)
          IN IF g.res.ok
             THEN [f EXCEPT !.self.vector_db = g.res.value, !.chroma = g.chroma]
             ELSE [f EXCEPT !.ret = Raised(g.res.exc)]

\* Etapa 3, second half: insert the chunks (is_persistent is False on this path)
Etapa3Add(f, env) ==
  LET g == add_documents_to_store(f.self.vector_db, f.chunks, FALSE, f.chroma, env)
  IN IF g.res.ok THEN [f EXCEPT !.chroma = g.chroma]
     ELSE [f EXCEPT !.ret = Raised(g.res.exc)]

\* Etapa 4: the retriever
Etapa4(f) ==
  LET r_conf == f.self.config["retriever_config"] IN
  IF "search_type" \notin DOMAIN r_conf \/ "search_kwargs" \notin DOMAIN r_conf
  THEN [f EXCEPT !.ret = Raised("KeyError")]
  ELSE [f EXCEPT !.self.retriever =
          [kind |-> "VectorStoreRetriever",
           vectorstore |-> f.self.vector_db,
           search_type |-> r_conf["search_type"],
           search_kwargs |-> r_conf["search_kwargs"]]]

\* Etapa 5 that also builds the chain, before the LLM of this call is known to exist
Etapa5_BuildsChain(f, env) ==
  LET llm_conf == f.self.config["llm_config"]
      g == [f EXCEPT !.self.rag_chain = [kind |-> "RunnableSequence",
                                         retriever |-> f.self.retriever,
                                         prompt |-> "RAG_PROMPT_TEMPLATE",
                                         llm |-> f.self.llm]]
  IN
  IF {"provider", "model_name", "temperature"} \subseteq DOMAIN llm_conf
  THEN LET r == get_llm(llm_conf["provider"], llm_conf["model_name"],
                        llm_conf["temperature"], env)
       IN IF r.ok THEN [g EXCEPT !.self.llm = r.value]
          ELSE [g EXCEPT !.ret = Raised(r.exc)]
  ELSE [g EXCEPT !.ret = Raised("KeyError")]

\* Etapa 5: the LLM
Etapa5(f, env) ==
  LET llm_conf == f.self.config["llm_config"] IN
  IF {"provider", "model_name", "temperature"} \subseteq DOMAIN llm_conf
  THEN LET r == get_llm(llm_conf["provider"], llm_conf["model_name"],
                        llm_conf["temperature"], env)
       IN IF r.ok THEN [f EXCEPT !.self.llm = r.value]
          ELSE [f EXCEPT !.ret = Raised(r.exc)]
  ELSE [f EXCEPT !.ret = Raised("KeyError")]

\* Etapas 6 and 7: the chain over the retriever and the LLM of this call; True
Etapa7(f) ==
  [f EXCEPT !.self.rag_chain = [kind |-> "RunnableSequence",
                                retriever |-> f.self.retriever,
                                prompt |-> "RAG_PROMPT_TEMPLATE",
                                llm |-> f.self.llm],
            !.ret = Returned(TRUE)]

\* RAGPipeline.setup_for_pdf(pdf_file_path), the file at that path holding `content`
setup_for_pdf(self, ch, pdf_file_path, content, env) ==
  LET f1 == Etapa1(Frame(self, ch), content, env)
      f2 == Then(f1, LAMBDA f : Etapa2(f, env))
      f3 == Then(f2, LAMBDA f : Etapa3(f, pdf_file_path, env))
      f3a == Then(f3, LAMBDA f : Etapa3Add(f, env))
      f4 == Then(f3a, Etapa4)
      f5 == Then(f4, LAMBDA f : Etapa5(f, env))
  IN Then(f5, Etapa7)

-----------------------------------------------------------------------------
(* The chain built by setup_for_pdf and RAGPipeline.ask *)

\* what one chain invocation meets: the retriever fails, or it ranks the entries
\* and the LLM fails, answers with text, or answers with nothing
AskEnvs ==
  [retr : {"ok"}, rank : {"stored", "reversed"}, llm : {"text", "empty", "raise"}]
    \cup {[retr |-> "raise", rank |-> "stored", llm |-> "raise"]}

AnswerOk == [retr |-> "ok", rank |-> "stored", llm |-> "text"]

Reverse(seq) == [i \in 1..Len(seq) |-> seq[Len(seq) + 1 - i]]

\* the entries of the retriever's collection by similarity to the question
\* (an order the environment picks), cut to the k nearest
Retrieve(retriever, ch, env) ==
  LET entries == ch[retriever.vectorstore.collection_name]
      ranked == IF env.rank = "stored" THEN entries ELSE Reverse(entries)
      k == retriever.search_kwargs["k"]
  IN SubSeq(ranked, 1, IF k < Len(ranked) THEN k ELSE Len(ranked))

Separator == [sep |-> "\n\n"]

\* format_docs joining the chunks from the last retrieved to the first
format_docs_ReverseOrder(docs) ==
  [i \in 1..(IF Len(docs) = 0 THEN 0 ELSE 2 * Len(docs) - 1) |->
     IF i % 2 = 1 THEN docs[Len(docs) + 1 - (i + 1) \div 2] ELSE Separator]

\* "\n\n".join(doc.page_content for doc in docs)
format_docs(docs) ==
  [i \in 1..(IF Len(docs) = 0 THEN 0 ELSE 2 * Len(docs) - 1) |->
     IF i % 2 = 1 THEN docs[(i + 1) \div 2] ELSE Separator]

\* rag_chain.invoke(question): retriever | format_docs, prompt, llm, StrOutputParser
Invoke(chain, ch, question, env) ==
  IF env.retr = "raise"
  THEN [res |-> Raise("RuntimeError"), retriever_invoked |-> TRUE,
        llm_invoked |-> FALSE, retrieved |-> <<>>, prompt |-> None]
  ELSE LET docs == Retrieve(chain.retriever, ch, env)
           prompt == [kind |-> "prompt", template |-> chain.prompt,
                      context |-> format_docs(docs), question |-> question]
       IN [res |-> CASE env.llm = "raise" -> Raise("RuntimeError")
                     [] env.llm = "empty" -> Ok(Str(""))
                     [] env.llm = "text" -> Ok(Str("answer")),
           retriever_invoked |-> TRUE, llm_invoked |-> TRUE,
           retrieved |-> docs, prompt |-> prompt]

\* the strings ask returns by itself (written without their accents)
MsgNoQuestion == "Por favor, forneca uma pergunta."
MsgAskError == "Ocorreu um erro ao processar sua pergunta."

\* one call of ask: the object afterwards, what was returned, what was invoked
AskCall(self, question, ret, retriever_invoked, llm_invoked, retrieved, prompt) ==
  [self |-> self, question |-> question, ret |-> ret,
   retriever_invoked |-> retriever_invoked, llm_invoked |-> llm_invoked,
   retrieved |-> retrieved, prompt |-> prompt]

\* ask with the two checks in the other order: the question before the chain
ask_QuestionFirst(self, ch, question, env) ==
  IF question = ""
  THEN AskCall(self, question, Returned(Str(MsgNoQuestion)), FALSE, FALSE, <<>>, None)
  ELSE IF self.rag_chain = None
  THEN AskCall(self, question, Returned(None), FALSE, FALSE, <<>>, None)
  ELSE LET r == Invoke(self.rag_chain, ch, question, env) IN
       AskCall(self, question,
               IF r.res.ok THEN Returned(r.res.value) ELSE Returned(Str(MsgAskError)),
               r.retriever_invoked, r.llm_invoked, r.retrieved, r.prompt)

\* ask whose exception handler also drops the chain
ask_DropsChainOnError(self, ch, question, env) ==
  IF self.rag_chain = None
  THEN AskCall(self, question, Returned(None), FALSE, FALSE, <<>>, None)
  ELSE IF question = ""
  THEN AskCall(self, question, Returned(Str(MsgNoQuestion)), FALSE, FALSE, <<>>, None)
  ELSE LET r == Invoke(self.rag_chain, ch, question, env) IN
       AskCall(IF r.res.ok THEN self ELSE [self EXCEPT !.rag_chain = None], question,
               IF r.res.ok THEN Returned(r.res.value) ELSE Returned(Str(MsgAskError)),
               r.retriever_invoked, r.llm_invoked, r.retrieved, r.prompt)

\* ask without the check of the question
ask_NoQuestionCheck(self, ch, question, env) ==
  IF self.rag_chain = None
  THEN AskCall(self, question, Returned(None), FALSE, FALSE, <<>>, None)
  ELSE LET r == Invoke(self.rag_chain, ch, question, env) IN
       AskCall(self, question,
               IF r.res.ok THEN Returned(r.res.value) ELSE Returned(Str(MsgAskError)),
               r.retriever_invoked, r.llm_invoked, r.retrieved, r.prompt)

\* ask that answers an empty response of the chain with the apology
ask_ApologyOnEmpty(self, ch, question, env) ==
  IF self.rag_chain = None
  THEN AskCall(self, question, Returned(None), FALSE, FALSE, <<>>, None)
  ELSE IF question = ""
  THEN AskCall(self, question, Returned(Str(MsgNoQuestion)), FALSE, FALSE, <<>>, None)
  ELSE LET r == Invoke(self.rag_chain, ch, question, env) IN
       AskCall(self, question,
               IF r.res.ok /\ Truthy(r.res.value) THEN Returned(r.res.value)
               ELSE Returned(Str(MsgAskError)),
               r.retriever_invoked, r.llm_invoked, r.retrieved, r.prompt)

\* RAGPipeline.ask(question)
ask(self, ch, question, env) ==
  IF self.rag_chain = None
  THEN AskCall(self, question, Returned(None), FALSE, FALSE, <<>>, None)
  ELSE IF question = ""
  THEN AskCall(self, question, Returned(Str(MsgNoQuestion)), FALSE, FALSE, <<>>, None)
  ELSE LET r == Invoke(self.rag_chain, ch, question, env) IN
       AskCall(self, question,
               IF r.res.ok THEN Returned(r.res.value) ELSE Returned(Str(MsgAskError)),
               r.retriever_invoked, r.llm_invoked, r.retrieved, r.prompt)

-----------------------------------------------------------------------------
(* A caller of the API: constructs pipelines, indexes files, asks *)

Questions == {"", "q"}

\* The record of the last operation.  doc, env, setup: the document and the
\* environment of its setup_for_pdf call and how the call ended; aenv, ask: the
\* environment of its ask call and the call (without the object); each None when
\* the call was not made.  stopped: the script run ended in st.stop().
Last(op, doc, env, setup, aenv, asked, stopped) ==
  [op |-> op, doc |-> doc, env |-> env, setup |-> setup, aenv |-> aenv,
   ask |-> asked, stopped |-> stopped]

NoOp(op) == Last(op, None, None, None, None, None, FALSE)

\* an ask call as `last` records it, with the object as it was before the call
Asked(before, a) ==
  [before |-> before, question |-> a.question, ret |-> a.ret,
   retriever_invoked |-> a.retriever_invoked,
   llm_invoked |-> a.llm_invoked, retrieved |-> a.retrieved, prompt |-> a.prompt]

\* no collection grows beyond MaxEntries by indexing doc
RoomFor(doc) ==
  \A c \in DOMAIN chroma : Len(chroma[c]) + NumChunks(doc.content) <= MaxEntries

\* the history of successful passes after a setup_for_pdf call for doc ended with ret
Passed(doc, ret) ==
  IF ret = Returned(TRUE) THEN [passes EXCEPT ![doc] = @ + 1] ELSE passes

ApiNew(cn) ==
  /\ caller = "api"
  /\ pipe' = RAGPipeline(UserConfig(cn))
  /\ everReady' = FALSE
  /\ last' = NoOp("RAGPipeline")
  /\ UNCHANGED <<caller, chroma, ss, uploader, passes, threads>>

ApiSetup(doc, env) ==
  /\ caller = "api"
  /\ pipe # None
  /\ RoomFor(doc)
  /\ \E f \in {setup_for_pdf(pipe, chroma, doc.name, doc.content, env)} :
       /\ pipe' = f.self
       /\ chroma' = f.chroma
       /\ everReady' = (everReady \/ f.ret = Returned(TRUE))
       /\ passes' = Passed(doc, f.ret)
       /\ last' = Last("setup_for_pdf", doc, env, f.ret, None, None, FALSE)
  /\ UNCHANGED <<caller, ss, uploader, threads>>

ApiAsk(q, env) ==
  /\ caller = "api"
  /\ pipe # None
  /\ \E a \in {ask(pipe, chroma, q, env)} :
       /\ pipe' = a.self
       /\ last' = Last("ask", None, None, None, env, Asked(pipe, a), FALSE)
  /\ UNCHANGED <<caller, everReady, chroma, ss, uploader, passes, threads>>

-----------------------------------------------------------------------------
(* app.py: one run of the script *)

Text(s) == [kind |-> "text", text |-> s]
\* f"Ola! Converse comigo sobre o conteudo do PDF '{uploaded_file.name}'."
Welcome(name) == [kind |-> "welcome", pdf |-> name]

MsgGreeting == "Ola! Por favor, faca o upload de um PDF para comecarmos."
MsgNoAnswer == "Desculpe, nao consegui obter uma resposta."
\* f"Ocorreu um erro ao tentar obter a resposta: {e}"
MsgAskRaised == "Ocorreu um erro ao tentar obter a resposta"

Msg(role, content) == [role |-> role, content |-> content]

\* os.path.join(TEMP_PDF_DIR, uploaded_file.name)
TempPath(name) == [kind |-> "path", dir |-> "TEMP_PDF_DIR", name |-> name]

\* st.session_state after the initialisation block of a new session
InitSessionState ==
  [ messages |-> <<Msg("assistant", Text(MsgGreeting))>>,
    rag_pipeline_instance |-> None,
    current_pdf_path |-> None,
    pdf_processed |-> FALSE ]

\* the reference session_state holds to the pipeline object `pipe`
PipeRef == [kind |-> "RAGPipeline"]

\* the sidebar block without the second test: a file that failed is not set up again
Sidebar_NoRetry(st, uploaded_file, env) ==
  IF uploaded_file # None
  THEN IF st.ss.current_pdf_path # TempPath(uploaded_file.name)
       THEN Let(setup_for_pdf(RAGPipeline(AppCustomConfig), st.chroma,
                              uploaded_file.name, uploaded_file.content, env),
                LAMBDA f :
            LET ss1 == [st.ss EXCEPT !.current_pdf_path = TempPath(uploaded_file.name)]
            IN [ ss |-> IF f.ret = Returned(TRUE)
                        THEN [ss1 EXCEPT !.rag_pipeline_instance = PipeRef,
                                         !.pdf_processed = TRUE,
                                         !.messages = <<Msg("assistant",
                                                            Welcome(uploaded_file.name))>>]
                        ELSE [ss1 EXCEPT !.rag_pipeline_instance = None,
                                         !.pdf_processed = FALSE],
                 pipe |-> f.self,
                 everReady |-> (f.ret = Returned(TRUE)),
                 chroma |-> f.chroma,
                 doc |-> uploaded_file,
                 setup |-> f.ret,
                 env |-> env ])
       ELSE st
  ELSE IF st.ss.pdf_processed
       THEN [st EXCEPT !.ss = [InitSessionState EXCEPT !.messages =
                                 <<Msg("assistant", Text(MsgGreeting))>>]]
       ELSE st

\* the sidebar block without the resets of a failed setup_for_pdf call
Sidebar_KeepsFlagOnFailure(st, uploaded_file, env) ==
  IF uploaded_file # None
  THEN IF st.ss.current_pdf_path # TempPath(uploaded_file.name) \/ ~st.ss.pdf_processed
       THEN Let(setup_for_pdf(RAGPipeline(AppCustomConfig), st.chroma,
                              uploaded_file.name, uploaded_file.content, env),
                LAMBDA f :
            LET ss1 == [st.ss EXCEPT !.current_pdf_path = TempPath(uploaded_file.name)]
            IN [ ss |-> IF f.ret = Returned(TRUE)
                        THEN [ss1 EXCEPT !.rag_pipeline_instance = PipeRef,
                                         !.pdf_processed = TRUE,
                                         !.messages = <<Msg("assistant",
                                                            Welcome(uploaded_file.name))>>]
                        ELSE [ss1 EXCEPT !.rag_pipeline_instance = PipeRef],
                 pipe |-> f.self,
                 everReady |-> (f.ret = Returned(TRUE)),
                 chroma |-> f.chroma,
                 doc |-> uploaded_file,
                 setup |-> f.ret,
                 env |-> env ])
       ELSE st
  ELSE IF st.ss.pdf_processed
       THEN [st EXCEPT !.ss = [InitSessionState EXCEPT !.messages =
                                 <<Msg("assistant", Text(MsgGreeting))>>]]
       ELSE st

\* The sidebar block.  st: [ss, pipe, everReady, chroma, doc, setup, env], the
\* last three None unless the block calls setup_for_pdf.
Sidebar(st, uploaded_file, env) ==
  IF uploaded_file # None
  THEN IF st.ss.current_pdf_path # TempPath(uploaded_file.name) \/ ~st.ss.pdf_processed
       THEN Let(setup_for_pdf(RAGPipeline(AppCustomConfig), st.chroma,
                              uploaded_file.name, uploaded_file.content, env),
                LAMBDA f :
            LET ss1 == [st.ss EXCEPT !.current_pdf_path = TempPath(uploaded_file.name)]
            IN [ ss |-> IF f.ret = Returned(TRUE)
                        THEN [ss1 EXCEPT !.rag_pipeline_instance = PipeRef,
                                         !.pdf_processed = TRUE,
                                         !.messages = <<Msg("assistant",
                                                            Welcome(uploaded_file.name))>>]
                        ELSE [ss1 EXCEPT !.rag_pipeline_instance = None,
                                         !.pdf_processed = FALSE],
                 pipe |-> f.self,
                 everReady |-> (f.ret = Returned(TRUE)),
                 chroma |-> f.chroma,
                 doc |-> uploaded_file,
                 setup |-> f.ret,
                 env |-> env ])
       ELSE st
  ELSE IF st.ss.pdf_processed
       THEN [st EXCEPT !.ss = [InitSessionState EXCEPT !.messages =
                                 <<Msg("assistant", Text(MsgGreeting))>>]]
       ELSE st

\* the chat block assigning the two new turns to messages instead of appending them
Chat_ReplacesMessages(st, prompt, env) ==
  IF prompt = ""
  THEN [ss |-> st.ss, pipe |-> st.pipe, aenv |-> None, ask |-> None, stopped |-> FALSE]
  ELSE IF ~st.ss.pdf_processed \/ st.ss.rag_pipeline_instance = None
  THEN [ss |-> st.ss, pipe |-> st.pipe, aenv |-> None, ask |-> None, stopped |-> TRUE]
  ELSE LET a == ask(st.pipe, st.chroma, prompt, env)
           full_response ==
             IF a.ret.kind = "raise" THEN MsgAskRaised
             ELSE IF Truthy(a.ret.value) THEN a.ret.value.text
             ELSE MsgNoAnswer
       IN [ss |-> [st.ss EXCEPT !.messages =
                     <<Msg("user", Text(prompt)),
                       Msg("assistant", Text(full_response))>>],
           pipe |-> a.self, aenv |-> env, ask |-> Asked(st.pipe, a), stopped |-> FALSE]

\* the chat block without the else branch: full_response stays "" for an empty answer
Chat_NoFallback(st, prompt, env) ==
  IF prompt = ""
  THEN [ss |-> st.ss, pipe |-> st.pipe, aenv |-> None, ask |-> None, stopped |-> FALSE]
  ELSE IF ~st.ss.pdf_processed \/ st.ss.rag_pipeline_instance = None
  THEN [ss |-> st.ss, pipe |-> st.pipe, aenv |-> None, ask |-> None, stopped |-> TRUE]
  ELSE LET a == ask(st.pipe, st.chroma, prompt, env)
           full_response ==
             IF a.ret.kind = "raise" THEN MsgAskRaised
             ELSE IF Truthy(a.ret.value) THEN a.ret.value.text
             ELSE ""
       IN [ss |-> [st.ss EXCEPT !.messages =
                     @ \o <<Msg("user", Text(prompt)),
                            Msg("assistant", Text(full_response))>>],
           pipe |-> a.self, aenv |-> env, ask |-> Asked(st.pipe, a), stopped |-> FALSE]

\* The chat block.  Returns [ss, pipe, aenv, ask, stopped].
Chat(st, prompt, env) ==
  IF prompt = ""
  THEN [ss |-> st.ss, pipe |-> st.pipe, aenv |-> None, ask |-> None, stopped |-> FALSE]
  ELSE IF ~st.ss.pdf_processed \/ st.ss.rag_pipeline_instance = None
  THEN [ss |-> st.ss, pipe |-> st.pipe, aenv |-> None, ask |-> None, stopped |-> TRUE]
  ELSE LET a == ask(st.pipe, st.chroma, prompt, env)
           full_response ==
             IF a.ret.kind = "raise" THEN MsgAskRaised
             ELSE IF Truthy(a.ret.value) THEN a.ret.value.text
             ELSE MsgNoAnswer
       IN [ss |-> [st.ss EXCEPT !.messages =
                     @ \o <<Msg("user", Text(prompt)),
                            Msg("assistant", Text(full_response))>>],
           pipe |-> a.self, aenv |-> env, ask |-> Asked(st.pipe, a), stopped |-> FALSE]

\* One run of the script: the sidebar block, then the chat block.  prompt is
\* what st.chat_input returns, "" when nothing was submitted.
Script(uploaded_file, prompt, senv, aenv) ==
  \E st1 \in {Sidebar([ss |-> ss, pipe |-> pipe, everReady |-> everReady,
                         chroma |-> chroma, doc |-> None, setup |-> None,
                         env |-> None],
                        uploaded_file, senv)} :
  \E c \in {Chat(st1, prompt, aenv)} :
     /\ ss' = c.ss
     /\ pipe' = c.pipe
     /\ everReady' = st1.everReady
     /\ chroma' = st1.chroma
     /\ uploader' = uploaded_file
     /\ passes' = IF st1.doc = None THEN passes ELSE Passed(st1.doc, st1.setup)
     /\ last' = Last("script", st1.doc, st1.env, st1.setup, c.aenv, c.ask, c.stopped)
     /\ UNCHANGED <<caller, threads>>

\* the sidebar block will call setup_for_pdf for the file in the uploader
WillSetup(uploaded_file) ==
  /\ uploaded_file # None
  /\ ss.current_pdf_path # TempPath(uploaded_file.name) \/ ~ss.pdf_processed

Prompts == Questions \ {""}

\* the user puts a file into the uploader
AppUpload(doc, senv) ==
  /\ caller = "app"
  /\ uploader # doc
  /\ WillSetup(doc) => RoomFor(doc)
  /\ Script(doc, "", senv, AnswerOk)

\* the user removes the file from the uploader
AppRemove ==
  /\ caller = "app"
  /\ uploader # None
  /\ Script(None, "", NoFault, AnswerOk)

\* the user submits a question in the chat input
AppChat(q, senv, aenv) ==
  /\ caller = "app"
  /\ WillSetup(uploader) => RoomFor(uploader)
  /\ Len(ss.messages) + 2 <= MaxTurns
  /\ Script(uploader, q, senv, aenv)

-----------------------------------------------------------------------------
(* Two threads calling setup_for_pdf and ask on one RAGPipeline.  The class *)
(* holds no lock, so the stages of one call interleave with the other call. *)

IdleSetup == [pc |-> "idle", doc |-> None, env |-> None, chunks |-> <<>>]
IdleAsk == [pc |-> "idle", question |-> "", env |-> None, before |-> None]
IdleThreads == [setup |-> IdleSetup, ask |-> IdleAsk]

\* One stage of the setup_for_pdf call in progress, from pc to next: Etapa runs on
\* the object and the Chroma system as they are now; the call ends when the
\* stage returns or raises.
SetupStage(t, next, Etapa(_)) ==
  \E f \in {Etapa([self |-> pipe, chroma |-> chroma, chunks |-> t.chunks,
                   ret |-> None])} :
    /\ pipe' = f.self
    /\ chroma' = f.chroma
    /\ IF Running(f)
       THEN /\ threads' = [threads EXCEPT !.setup = [t EXCEPT !.pc = next,
                                                              !.chunks = f.chunks]]
            /\ UNCHANGED <<everReady, passes, last>>
       ELSE /\ threads' = [threads EXCEPT !.setup = IdleSetup]
            /\ everReady' = (everReady \/ f.ret = Returned(TRUE))
            /\ passes' = Passed(t.doc, f.ret)
            /\ last' = Last("setup_for_pdf", t.doc, t.env, f.ret, None, None, FALSE)
    /\ UNCHANGED <<caller, ss, uploader>>

\* a thread calls setup_for_pdf; Etapa 1 runs
TEtapa1(doc, env) ==
  /\ caller = "threads"
  /\ threads.setup.pc = "idle"
  /\ RoomFor(doc)
  /\ SetupStage([IdleSetup EXCEPT !.doc = doc, !.env = env], "etapa2",
                LAMBDA f : Etapa1(f, doc.content, env))

TEtapa2 ==
  /\ threads.setup.pc = "etapa2"
  /\ SetupStage(threads.setup, "etapa3", LAMBDA f : Etapa2(f, threads.setup.env))

TEtapa3 ==
  /\ threads.setup.pc = "etapa3"
  /\ SetupStage(threads.setup, "etapa3add",
                LAMBDA f : Etapa3(f, threads.setup.doc.name, threads.setup.env))

TEtapa3Add ==
  /\ threads.setup.pc = "etapa3add"
  /\ SetupStage(threads.setup, "etapa4", LAMBDA f : Etapa3Add(f, threads.setup.env))

TEtapa4 ==
  /\ threads.setup.pc = "etapa4"
  /\ SetupStage(threads.setup, "etapa5", Etapa4)

TEtapa5 ==
  /\ threads.setup.pc = "etapa5"
  /\ SetupStage(threads.setup, "etapa7", LAMBDA f : Etapa5(f, threads.setup.env))

TEtapa7 ==
  /\ threads.setup.pc = "etapa7"
  /\ SetupStage(threads.setup, "idle", Etapa7)

\* the ask call of the other thread ends with `a`
AskEnds(before, env, a) ==
  /\ threads' = [threads EXCEPT !.ask = IdleAsk]
  /\ last' = Last("ask", None, None, None, env, Asked(before, a), FALSE)

\* a thread calls ask: the two checks before the try block
TAskCheck(q, env) ==
  /\ caller = "threads"
  /\ threads.ask.pc = "idle"
  /\ IF pipe.rag_chain = None
     THEN AskEnds(pipe, env,
                  AskCall(pipe, q, Returned(None), FALSE, FALSE, <<>>, None))
     ELSE IF q = ""
     THEN AskEnds(pipe, env,
                  AskCall(pipe, q, Returned(Str(MsgNoQuestion)), FALSE, FALSE, <<>>, None))
     ELSE /\ threads' = [threads EXCEPT !.ask = [pc |-> "invoke", question |-> q,
                                                 env |-> env, before |-> pipe]]
          /\ last' = last
  /\ UNCHANGED <<caller, pipe, everReady, chroma, ss, uploader, passes>>

\* the try block: self.rag_chain is read again and invoked; a chain cleared in
\* between makes the invocation raise, which the handler turns into the apology
TAskInvoke ==
  /\ threads.ask.pc = "invoke"
  /\ LET t == threads.ask IN
     IF pipe.rag_chain = None
     THEN AskEnds(t.before, t.env,
                  AskCall(pipe, t.question, Returned(Str(MsgAskError)),
                          FALSE, FALSE, <<>>, None))
     ELSE \E r \in {Invoke(pipe.rag_chain, chroma, t.question, t.env)} :
            AskEnds(t.before, t.env,
                    AskCall(pipe, t.question,
                            IF r.res.ok THEN Returned(r.res.value)
                            ELSE Returned(Str(MsgAskError)),
                            r.retriever_invoked, r.llm_invoked, r.retrieved, r.prompt))
  /\ UNCHANGED <<caller, pipe, everReady, chroma, ss, uploader, passes>>

-----------------------------------------------------------------------------
(* The specification *)

Init ==
  /\ caller \in {"api", "app"}
  /\ pipe = None
  /\ everReady = FALSE
  /\ chroma = [c \in {} |-> <<>>]
  /\ ss = InitSessionState
  /\ uploader = None
  /\ passes = [d \in Docs |-> 0]
  /\ threads = IdleThreads
  /\ last = NoOp("init")

Next ==
  \/ \E cn \in ConfigNames : ApiNew(cn)
  \/ \E doc \in Docs, env \in SetupEnvs : ApiSetup(doc, env)
  \/ \E q \in Questions, env \in AskEnvs : ApiAsk(q, env)
  \/ \E doc \in Docs, env \in SetupEnvs : AppUpload(doc, env)
  \/ AppRemove
  \/ \E q \in Prompts, aenv \in AskEnvs :
       \E senv \in IF WillSetup(uploader) THEN SetupEnvs ELSE {NoFault} :
         AppChat(q, senv, aenv)

Spec == Init /\ [][Next]_vars

\* the threads start on a pipeline constructed as app.py constructs it
InitThreads ==
  /\ caller = "threads"
  /\ pipe = RAGPipeline(AppCustomConfig)
  /\ everReady = FALSE
  /\ chroma = [c \in {} |-> <<>>]
  /\ ss = InitSessionState
  /\ uploader = None
  /\ passes = [d \in Docs |-> 0]
  /\ threads = IdleThreads
  /\ last = NoOp("init")

NextThreads ==
  \/ \E doc \in Docs, env \in SetupEnvs : TEtapa1(doc, env)
  \/ TEtapa2
  \/ TEtapa3
  \/ TEtapa3Add
  \/ TEtapa4
  \/ TEtapa5
  \/ TEtapa7
  \/ \E q \in Questions, env \in AskEnvs : TAskCheck(q, env)
  \/ TAskInvoke

SpecThreads == InitThreads /\ [][NextThreads]_vars

-----------------------------------------------------------------------------
(* Properties *)

\* the five session fields of a pipeline are all unset
PipeEmpty(p) ==
  /\ p.rag_chain = None
  /\ p.retriever = None
  /\ p.vector_db = None
  /\ p.embeddings_model = None
  /\ p.llm = None

SetupFailed == last.setup # None /\ last.setup # Returned(TRUE)

ChainFails(env) == env.retr = "raise" \/ env.llm = "raise"

C2_FailedSetupLeavesEmpty ==
  /\ SetupFailed => pipe.rag_chain = None
  /\ (SetupFailed /\ everReady) => PipeEmpty(pipe)

\* C3: no call of setup_for_pdf or of ask ends by raising.
C3_NoExceptionEscapes ==
  /\ last.setup # None => last.setup.kind = "return"
  /\ last.ask # None => last.ask.ret.kind = "return"

\* C4: an ask call whose chain invocation fails on a pipeline with a chain returns
\* the apology string and leaves the pipeline as it was, chain included.
C4_AskFailureKeepsReady ==
  (/\ last.ask # None
   /\ last.ask.before.rag_chain # None
   /\ last.ask.question # ""
   /\ ChainFails(last.aenv))
  => /\ last.ask.ret = Returned(Str(MsgAskError))
     /\ pipe = last.ask.before
     /\ pipe.rag_chain # None

\* the LLM failed after the retriever had returned chunks
C4_Witness ==
  /\ last.ask # None
  /\ last.ask.before.rag_chain # None
  /\ last.aenv.retr = "ok" /\ last.aenv.llm = "raise"
  /\ last.ask.llm_invoked
  /\ Len(last.ask.retrieved) > 0
  /\ last.ask.ret = Returned(Str(MsgAskError))

\* C5: once setup_for_pdf has returned True at least twice for a document, the
\* collection the pipeline queries holds the chunks of one pass.
C5_ReindexKeepsOnePass ==
  (last.setup = Returned(TRUE) /\ passes[last.doc] >= 2)
  => Len(chroma[pipe.vector_db.collection_name]) = NumChunks(last.doc.content)

\* C6: in the app, while a document is reported as processed, every chunk an ask
\* call retrieves is a chunk of the file now in the uploader.
C6_RetrievesCurrentDocumentOnly ==
  (caller = "app" /\ ss.pdf_processed /\ uploader # None /\ last.ask # None)
  => \A i \in 1..Len(last.ask.retrieved) : last.ask.retrieved[i].doc = uploader.content

\* C7: while a setup_for_pdf call is between its start and its end, the thread
\* calling ask takes no step.
C7_AskWaitsForSetup ==
  [][threads.setup.pc # "idle" => threads'.ask = threads.ask]_vars

\* C8: with mode "persistent", a setup_for_pdf call that meets no fault on a file
\* with text returns True and leaves the collection holding the chunks of this pass.
C8_PersistentReplaces ==
  (/\ last.setup # None
   /\ Get(pipe.config["vector_store_config"], "mode", "in_memory") = "persistent"
   /\ last.env = NoFault
   /\ NumChunks(last.doc.content) > 0)
  => /\ last.setup = Returned(TRUE)
     /\ chroma[pipe.vector_db.collection_name] = ChunksOf(last.doc.content)

\* C9: no setup_for_pdf call fails on a key the configuration omits.
C9_OmittedKeysDefaulted == last.setup # None => last.setup # Raised("KeyError")

\* C10 as stated: ask with an empty question invokes no provider and returns the
\* validation message, in every state.
C10_EmptyQuestionRejected ==
  (last.ask # None /\ last.ask.question = "")
  => /\ ~last.ask.retriever_invoked
     /\ ~last.ask.llm_invoked
     /\ last.ask.ret = Returned(Str(MsgNoQuestion))

\* C10 as amended: ask with an empty question invokes no provider; it returns the
\* validation message when the pipeline has a chain, and None when it has none.
C10_EmptyQuestionNoProvider ==
  (last.ask # None /\ last.ask.question = "")
  => /\ ~last.ask.retriever_invoked
     /\ ~last.ask.llm_invoked
     /\ last.ask.ret = IF last.ask.before.rag_chain = None
                       THEN Returned(None)
                       ELSE Returned(Str(MsgNoQuestion))

\* an empty question asked of a pipeline with a chain over a filled collection
C10_Witness ==
  /\ last.ask # None
  /\ last.ask.question = ""
  /\ last.ask.before.rag_chain # None
  /\ Len(chroma[last.ask.before.vector_db.collection_name]) > 0
  /\ last.ask.ret = Returned(Str(MsgNoQuestion))

\* the LLM of an ask call was reached and produced an output
LlmAnswered ==
  /\ last.ask # None
  /\ last.ask.before.rag_chain # None
  /\ last.ask.llm_invoked
  /\ last.aenv.llm # "raise"

\* the last turn of the conversation shown by the app
LastTurn == ss.messages[Len(ss.messages)]

\* C11 as stated: on a pipeline with a chain, ask returns the text of the LLM when
\* it is not empty, and a non-empty fallback string when the LLM returns nothing.
C11_AskVerbatimOrFallback ==
  LlmAnswered =>
    IF last.aenv.llm = "text"
    THEN last.ask.ret = Returned(Str("answer"))
    ELSE last.ask.ret.kind = "return" /\ Truthy(last.ask.ret.value)

\* C11 as amended: ask returns the output of the LLM as it is, the empty string
\* included; the fallback string for an empty output is put into the assistant
\* turn by the chat block of the app.
C11_AskVerbatimAppFallback ==
  /\ LlmAnswered =>
       last.ask.ret = Returned(Str(IF last.aenv.llm = "text" THEN "answer" ELSE ""))
  /\ (LlmAnswered /\ caller = "app") =>
       LastTurn = Msg("assistant",
                      Text(IF last.aenv.llm = "text" THEN "answer" ELSE MsgNoAnswer))

\* in the app the LLM answered a question with nothing
C11_Witness ==
  /\ caller = "app"
  /\ LlmAnswered
  /\ last.aenv.llm = "empty"
  /\ last.ask.ret = Returned(Str(""))
  /\ LastTurn.content = Text(MsgNoAnswer)

\* the file in the uploader is the one whose setup_for_pdf call failed last
FailedUpload ==
  /\ uploader # None
  /\ ss.current_pdf_path = TempPath(uploader.name)
  /\ ~ss.pdf_processed

\* C12 as stated: after a failed indexing in the app, a script run with the same
\* file still in the uploader makes no setup_for_pdf call, and no document is
\* processed after it.
C12_NoRetryWithoutUpload ==
  [][(caller = "app" /\ FailedUpload /\ uploader' = uploader)
     => (last'.setup = None /\ ~ss'.pdf_processed)]_vars

\* C12 as amended: after a failed indexing in the app, every script run with the
\* same file still in the uploader calls setup_for_pdf for that file again; the
\* document is processed after the run exactly when that call returned True, and
\* otherwise the session holds no pipeline.
C12_FailedUploadRetried ==
  [][(caller = "app" /\ FailedUpload /\ uploader' = uploader)
     => /\ last'.setup # None
        /\ last'.doc = uploader
        /\ ss'.pdf_processed = (last'.setup = Returned(TRUE))
        /\ ~ss'.pdf_processed => ss'.rag_pipeline_instance = None]_vars

\* a question submitted after a failed upload: the run set the file up again,
\* this time with success, and answered the question
C12_Witness ==
  /\ caller = "app"
  /\ last.op = "script"
  /\ last.setup = Returned(TRUE)
  /\ last.ask # None
  /\ ss.pdf_processed

\* the stages of a setup_for_pdf call in the order of the method
StageOrder == <<"idle", "etapa2", "etapa3", "etapa3add", "etapa4", "etapa5", "etapa7">>

StageRank(pc) == CHOOSE i \in 1..Len(StageOrder) : StageOrder[i] = pc

\* the chain over the retriever and the LLM the pipeline holds
ChainOf(p) ==
  [kind |-> "RunnableSequence", retriever |-> p.retriever,
   prompt |-> "RAG_PROMPT_TEMPLATE", llm |-> p.llm]

\* C13: a setup_for_pdf call goes through chunking, embedding model, vector store,
\* insertion, retriever, LLM and chain in that order, each field being assigned in
\* its own stage only; rag_chain is set to a chain only by the last stage, over the
\* retriever and the LLM the pipeline then holds, and only that step returns True.
C13_StagesInOrder ==
  [][LET s == threads.setup.pc
         t == threads'.setup.pc
     IN /\ t # s => (t = "idle" \/ StageRank(t) = StageRank(s) + 1)
        /\ threads'.setup.chunks # threads.setup.chunks => (s = "idle" \/ t = "idle")
        /\ pipe'.embeddings_model # pipe.embeddings_model => s = "etapa2"
        /\ pipe'.vector_db # pipe.vector_db => s = "etapa3"
        /\ chroma' # chroma => s \in {"etapa3", "etapa3add"}
        /\ pipe'.retriever # pipe.retriever => s = "etapa4"
        /\ pipe'.llm # pipe.llm => s = "etapa5"
        /\ (pipe'.rag_chain # pipe.rag_chain /\ pipe'.rag_chain # None)
             => (s = "etapa7" /\ pipe'.rag_chain = ChainOf(pipe'))
        /\ (s # "idle" /\ t = "idle" /\ last'.setup = Returned(TRUE))
             => (s = "etapa7" /\ pipe'.rag_chain = ChainOf(pipe'))
        /\ (s = "etapa7" /\ t = "idle") => last'.setup = Returned(TRUE)]_vars

\* a call has gone through all its stages and returned True: the pipeline holds
\* the chain over a collection filled with the chunks of the document
C13_Witness ==
  /\ caller = "threads"
  /\ threads.setup.pc = "idle"
  /\ last.setup = Returned(TRUE)
  /\ pipe.rag_chain = ChainOf(pipe)
  /\ pipe.llm # None
  /\ Len(chroma[pipe.vector_db.collection_name]) >= NumChunks(last.doc.content)

\* the step was a setup_for_pdf call whose chunker yielded nothing: the file has no
\* extractable text, or the loader or the splitter raised
NoChunksStep ==
  /\ last'.setup # None
  /\ (NumChunks(last'.doc.content) = 0 \/ last'.env.fault = "loader")

\* C14: a setup_for_pdf call whose chunker yields nothing returns False, leaves
\* rag_chain unset, and creates no embedding model, vector store, collection
\* entry, retriever or LLM: called through the API it changes no other field of
\* the pipeline, and in the app the new pipeline of the run has every field unset.
C14_NoChunksNoProviders ==
  [][NoChunksStep
     => /\ last'.setup = Returned(FALSE)
        /\ pipe'.rag_chain = None
        /\ chroma' = chroma
        /\ IF caller = "api"
           THEN pipe' = [pipe EXCEPT !.rag_chain = None]
           ELSE PipeEmpty(pipe')]_vars

\* the loader raised in a call on a pipeline that had a chain: the chain is gone,
\* the vector store and the LLM of the earlier call are still those of that call
C14_Witness ==
  /\ caller = "api"
  /\ last.setup = Returned(FALSE)
  /\ last.env.fault = "loader"
  /\ NumChunks(last.doc.content) > 0
  /\ everReady
  /\ pipe.rag_chain = None
  /\ pipe.vector_db # None
  /\ pipe.llm # None

\* the elements of seq with sep between each two neighbours
RECURSIVE Joined(_, _)
Joined(seq, sep) ==
  IF Len(seq) = 0 THEN <<>>
  ELSE IF Len(seq) = 1 THEN <<seq[1]>>
  ELSE <<seq[1], sep>> \o Joined(Tail(seq), sep)

\* the entries of the collection the chain of the last ask call searches, in the
\* order the ranking of that call puts them
RankedEntries ==
  LET entries == chroma[last.ask.before.rag_chain.retriever.vectorstore.collection_name]
  IN IF last.aenv.rank = "reversed" THEN Reverse(entries) ELSE entries

\* C15: the prompt an ask call hands to the LLM is the fixed template with the
\* question slot holding the question as it was asked and the context slot holding
\* the retrieved chunks in rank order, the separator between each two of them.
C15_PromptFilledInRankOrder ==
  (last.ask # None /\ last.ask.llm_invoked)
  => /\ last.ask.retrieved = RankedEntries
     /\ last.ask.prompt.template = "RAG_PROMPT_TEMPLATE"
     /\ last.ask.prompt.question = last.ask.question
     /\ last.ask.prompt.context = Joined(RankedEntries, Separator)

\* the retriever ranked the second chunk of a document before the first: the
\* context holds them in that order
C15_Witness ==
  /\ last.ask # None
  /\ last.ask.llm_invoked
  /\ Len(last.ask.retrieved) >= 2
  /\ last.ask.retrieved[1].doc = last.ask.retrieved[2].doc
  /\ last.ask.retrieved[1].idx > last.ask.retrieved[2].idx
  /\ last.ask.prompt.context[1] = last.ask.retrieved[1]
  /\ last.ask.prompt.context[2] = Separator
  /\ last.ask.prompt.context[3] = last.ask.retrieved[2]

IsPrefix(a, b) == Len(a) <= Len(b) /\ SubSeq(b, 1, Len(a)) = a

\* C16 as stated: every step of the app leaves the turns already in the
\* conversation in place, whatever it appends.
C16_ConversationAppendOnly ==
  [][IsPrefix(ss.messages, ss'.messages)]_vars

\* C16 as amended: a step of the app leaves the turns already in the conversation
\* in place, except that a run whose setup_for_pdf call returned True starts the
\* conversation again from the welcome turn of the new file, and a run that finds
\* the file of a processed document removed replaces it by the greeting turn.
C16_AppendOnlyWithinDocument ==
  [][\/ IsPrefix(ss.messages, ss'.messages)
     \/ /\ last'.setup = Returned(TRUE)
        /\ IsPrefix(<<Msg("assistant", Welcome(uploader'.name))>>, ss'.messages)
     \/ /\ ss.pdf_processed
        /\ uploader' = None
        /\ ss'.messages = <<Msg("assistant", Text(MsgGreeting))>>]_vars

\* a second document was set up in the run of a question: the conversation is the
\* welcome turn of that document followed by the question and its answer
C16_Witness ==
  /\ caller = "app"
  /\ last.setup = Returned(TRUE)
  /\ last.ask # None
  /\ Cardinality({d \in Docs : passes[d] > 0}) >= 2
  /\ Len(ss.messages) = 3
  /\ ss.messages[1] = Msg("assistant", Welcome(uploader.name))
  /\ ss.messages[2] = Msg("user", Text(last.ask.question))

\* C17: at the end of a script run of the app, pdf_processed is true only when
\* the session holds a pipeline whose setup_for_pdf call returned True, with its
\* chain, and current_pdf_path is set; after a setup_for_pdf call that returned
\* False or raised, and after a run without a file in the uploader, pdf_processed
\* is false and the session holds no pipeline.
C17_ProcessedFlagConsistent ==
  caller = "app" =>
    /\ ss.pdf_processed =>
         /\ ss.rag_pipeline_instance = PipeRef
         /\ everReady
         /\ pipe.rag_chain # None
         /\ ss.current_pdf_path # None
    /\ SetupFailed => (~ss.pdf_processed /\ ss.rag_pipeline_instance = None)
    /\ (last.op = "script" /\ uploader = None) =>
         (~ss.pdf_processed /\ ss.rag_pipeline_instance = None)

\* after a document had been processed, the setup_for_pdf call for the next
\* upload raised
C17_Witness ==
  /\ caller = "app"
  /\ last.setup # None
  /\ last.setup.kind = "raise"
  /\ \E d \in Docs : passes[d] > 0
  /\ ~ss.pdf_processed
  /\ ss.rag_pipeline_instance = None
  /\ ss.current_pdf_path = TempPath(uploader.name)

\* C18: a script run in which a question is submitted while a document is
\* processed makes the ask call and appends to the conversation one user turn
\* with the question and then one assistant turn with a text that is not empty.
C18_QuestionAppendsTwoTurns ==
  [][(caller = "app" /\ ss.pdf_processed /\ (last'.ask # None \/ last'.stopped))
     => LET n == Len(ss.messages) IN
        /\ last'.ask # None
        /\ Len(ss'.messages) = n + 2
        /\ IsPrefix(ss.messages, ss'.messages)
        /\ ss'.messages[n + 1] = Msg("user", Text(last'.ask.question))
        /\ ss'.messages[n + 2].role = "assistant"
        /\ ss'.messages[n + 2].content.kind = "text"
        /\ ss'.messages[n + 2].content.text # ""]_vars

\* the second question of a conversation met a failing chain: the conversation
\* ends with the question and the apology ask returned
C18_Witness ==
  /\ caller = "app"
  /\ last.ask # None
  /\ ChainFails(last.aenv)
  /\ Len(ss.messages) = 5
  /\ ss.messages[4] = Msg("user", Text(last.ask.question))
  /\ ss.messages[5] = Msg("assistant", Text(MsgAskError))

====
